---------------------------- MODULE Spec2Model ----------------------------
(***************************************************************************)
(* Instance lifecycle orchestration of dask_cloudprovider's Fly.io         *)
(* (fly/machine.py) and IBM Code Engine (ibm/code_engine.py) providers.    *)
(*                                                                         *)
(* One cluster is modelled: its application (Fly only), one scheduler      *)
(* instance (instance 0) and up to MaxWorkers worker instances.  Every     *)
(* coroutine is cut at its suspension points (the awaits that really       *)
(* yield to the event loop); code between two suspension points is one     *)
(* atomic action.  The provider (CloudAPI) is the environment: every call  *)
(* answers with one of the outcomes the SDK can produce.                   *)
(*                                                                         *)
(* Strings are sequences of tokens, so that formatting, splitting and      *)
(* joining are modelled by what they do and "contains verbatim" is a       *)
(* contiguous-subsequence test.  Python's None is the empty sequence for   *)
(* string-valued fields and the string "None" for cluster.app/app_name.    *)
(***************************************************************************)
EXTENDS Naturals, Sequences, FiniteSets, TLC

\* ------------------------------------------------------------------ bounds
MaxWorkers == 2

MaxPolls == 2

NCallers == 3

\* ------------------------------------------------------------ value spaces
Scheduler == 0

Workers == 1..MaxWorkers

Insts == {Scheduler} \cup Workers

Callers == 1..NCallers

None == << >>

Providers == {"fly", "ibm"}

\* private_ip values the Fly API may assign to a machine
PrivateIPs == {"fdaa:0:1", "fdaa:0:2"}

\* host names the Code Engine API may report in endpoint_internal / endpoint
InternalHosts == {"sched.internal-a", "sched.internal-b"}

PublicHost == "sched.public"

\* statuses a Code Engine app reports while it is not ready
PendingStatuses == {"deploying", "failed"}

VARIABLES
    resources,         \* the cpus and memory_mb the cluster was constructed with
    provider,          \* which provider module the cluster uses
    app,               \* FlyMachineCluster.app: "None" | "app" | "failed"
    app_name,          \* FlyMachineCluster.app_name: "None" | a name
    sched_addr,        \* cluster.scheduler_internal_address (fly) / scheduler_internal_ip (ibm)
    pc,                \* position of each instance's start coroutine
    machine,           \* FlyMachine.machine: FALSE (None) or TRUE (a machine handle)
    address,           \* internal address: self.address (fly) / self.internal_ip (ibm)
    external_address,  \* self.external_address (fly) / self.external_ip (ibm)
    command,           \* the worker's command
    err,               \* the exception a failed start raised
    polls,             \* sleeps taken in the current wait loop (wrapping), last status seen
    cloudApp,          \* provider side of the Fly app, with the calls issued for it
    cloudInst,         \* provider side of each instance, with the calls issued for it
    closer,            \* position of close(), the deletes that raised in it
    callers,           \* concurrent callers of create_app (through scheduler start)
    response,          \* create_vm's local "app": the get_app response that ended the loop
    probe              \* what wait_for_scheduler has read from its socket probe:
                       \* "none" | "pending" (task created, result not read) |
                       \* "open" | "closed"

vars == <<resources, provider, app, app_name, sched_addr, pc, machine, address,
          external_address, command, err, polls, cloudApp, cloudInst,
          closer, callers, response, probe>>

instVars == <<pc, machine, address, external_address, command, err, polls,
              response, probe>>

clusterVars == <<resources, provider, app, app_name, sched_addr>>

\* ------------------------------------------------------- string operations
RECURSIVE Join(_, _)
\* sep.join(parts): parts is a sequence of strings (token sequences)
Join(sep, parts) ==
    IF Len(parts) = 0 THEN << >>
    ELSE IF Len(parts) = 1 THEN parts[1]
    ELSE parts[1] \o sep \o Join(sep, Tail(parts))

\* s contains sub verbatim (sub as a contiguous run of s)
Contains(s, sub) ==
    /\ Len(sub) > 0
    /\ Len(s) >= Len(sub)
    /\ \E k \in 0..(Len(s) - Len(sub)) : SubSeq(s, k + 1, k + Len(sub)) = sub

\* Index of the first "//" token of url, 0 when there is none
FirstSlashes(url) ==
    IF \E k \in 1..Len(url) : url[k] = "//"
    THEN CHOOSE k \in 1..Len(url) :
             /\ url[k] = "//"
             /\ \A j \in 1..(k - 1) : url[j] /= "//"
    ELSE 0

\* url.split("//")[0]: what lies before the first "//"
SplitSlashesFirst(url) ==
    LET k == FirstSlashes(url)
    IN  IF k = 0 THEN url ELSE SubSeq(url, 1, k - 1)

\* url.split("//")[1]: what lies between the first "//" and the next one
SplitSlashesSecond(url) ==
    LET k == FirstSlashes(url)
        rest == SubSeq(url, k + 1, Len(url))
        n == FirstSlashes(rest)
    IN  IF n = 0 THEN rest ELSE SubSeq(rest, 1, n - 1)

\* f'tcp://[{self.machine.private_ip}]:8786'
FlyAddress(ip) == <<"tcp://[", ip, "]:8786">>

\* The endpoints of a ready Code Engine app, as the API reports them
EndpointInternal(host) == <<"http:", "//", host>>

EndpointPublic == <<"https:", "//", PublicHost>>


\* ------------------------------------------------------ command construction
\* The scheduler address handed to a new worker's constructor: the address the
\* scheduler start recorded on the cluster (None while nothing is recorded).
SchedulerArg == sched_addr

\* A worker command built around the scheduler's host name instead of the
\* address handed to the constructor
FlyWorkerCommandByHost(scheduler) ==
    Join(<<" ">>, << <<"DASK_INTERNAL__INHERIT_CONFIG">>, <<"dask">>, <<"worker">>,
                     <<"scheduler.vm.internal">> >>)

\* FlyMachineWorker.__init__: " ".join([set_env, "dask", "worker", self.scheduler])
FlyWorkerCommand(scheduler) ==
    Join(<<" ">>, << <<"DASK_INTERNAL__INHERIT_CONFIG">>, <<"dask">>, <<"worker">>,
                     scheduler >>)

\* IBMCodeEngineWorker.__init__: the argument list, with
\* internal_scheduler = f"ws://{self.cluster.scheduler_internal_ip}:80"
IBMWorkerCommand(scheduler_internal_ip) ==
    <<"python", "-m", "distributed.cli.dask_spec">>
        \o (<<"ws://">> \o scheduler_internal_ip \o <<":80">>)
        \o <<"--spec", "{cls,opts}">>

WorkerCommand(scheduler) ==
    IF provider = "fly" THEN FlyWorkerCommand(scheduler)
    ELSE IBMWorkerCommand(IF scheduler = None THEN <<"None">> ELSE scheduler)

\* A constructor that accepts a missing scheduler address
WorkerInitNoCheck(scheduler) == "none"

\* The exception the worker constructor raises, "none" when it returns.
\* fly: str.join over a list holding None raises TypeError.
\* ibm: cluster.scheduler_internal_ip is assigned only by start_scheduler;
\*      reading it earlier raises AttributeError.
WorkerInitError(scheduler) ==
    IF scheduler /= None THEN "none"
    ELSE IF provider = "fly" THEN "TypeError" ELSE "AttributeError"

InitErrors == {"TypeError", "AttributeError"}

\* ------------------------------------------------------------------- state
\* A wait_for_app that looks at the application's name only
AppReadyNameOnly == app_name /= "None"

\* The loop condition of wait_for_app, negated
AppReady == app /= "None" /\ app_name /= "None"

\* IBMCodeEngine.create_vm polls with time.sleep: no other task runs meanwhile
Blocked == \E i \in Insts : pc[i] = "polling"

\* Positions at which a start coroutine is suspended in an await
AwaitPcs == {"app_call", "wait_app", "vm_wait_app", "vm_call", "probe"}

\* One more sleep of a wait loop; the count wraps after MaxPolls so that the
\* state space stays finite and every turn of a loop is a step
Bump(p, st) == [n |-> IF p.n < MaxPolls THEN p.n + 1 ELSE 0, seen |-> st]

NoPolls == [n |-> 0, seen |-> "none"]

\* No get_app response has ended the status loop yet
NoResponse == [polls |-> 0, endpoint_internal |-> None]

\* The cpus / memory_mb a cluster may be constructed with
ResourceConfigs == [cpus : {1, 2}, memory_mb : {1024, 2048}]

\* No create_machine payload has been built
NoGuest == [cpus |-> 0, memory_mb |-> 0]

\* FlyMachine.__init__(cpus=..., memory_mb=...): "self.cpus = 1",
\* "self.memory_mb = 1024", whatever was passed
FlyMachineInit(res) == [cpus |-> 1, memory_mb |-> 1024]

\* machines.FlyMachineConfigGuest(cpus=self.cpus, memory_mb=self.memory_mb)
FlyMachineConfigGuest(self) == [cpus |-> self.cpus, memory_mb |-> self.memory_mb]

\* The cluster and its instances after construction, whatever the resources
InitCluster ==
    /\ provider \in Providers
    /\ app = "None"
    /\ app_name \in (IF provider = "fly" THEN {"None", "user-app"} ELSE {"None"})
    /\ sched_addr = None
    /\ pc = [i \in Insts |-> IF i = Scheduler THEN "idle" ELSE "new"]
    /\ machine = [i \in Insts |-> FALSE]
    /\ address = [i \in Insts |-> None]
    /\ external_address = [i \in Insts |-> None]
    /\ command = [i \in Insts |-> None]
    /\ err = [i \in Insts |-> "none"]
    /\ polls = [i \in Insts |-> NoPolls]
    /\ cloudApp = [exists |-> app_name /= "None", creates |-> 0, deletes |-> 0]
    /\ cloudInst = [i \in Insts |->
                       [exists |-> FALSE, creates |-> 0, deletes |-> 0,
                        aux |-> 0, cfg |-> FALSE, guest |-> NoGuest]]
    /\ closer = [pc |-> "idle", todo |-> {}, visited |-> {}, awaiting |-> {},
                 raised |-> {}, appRaised |-> FALSE, again |-> FALSE]
    /\ callers = [c \in Callers |-> "idle"]
    /\ response = NoResponse
    /\ probe = "none"

\* A cluster constructed with cpus=1, memory_mb=1024
Init == InitCluster /\ resources = [cpus |-> 1, memory_mb |-> 1024]

\* ------------------------------------------------------------ fly: create
\* FlyMachine.create_vm up to its first suspension: wait_for_app, then the
\* create_machine call is issued (ready) or the loop sleeps (not ready)
EnterCreateVm(i, ready) ==
    IF ready
    THEN /\ pc' = [pc EXCEPT ![i] = "vm_call"]
         /\ cloudInst' = [cloudInst EXCEPT
                ![i].creates = @ + 1,
                ![i].guest = FlyMachineConfigGuest(FlyMachineInit(resources))]
    ELSE /\ pc' = [pc EXCEPT ![i] = "vm_wait_app"]
         /\ UNCHANGED cloudInst

\* FlyMachineScheduler.start up to its first suspension
StartSchedulerFly ==
    /\ provider = "fly"
    /\ pc[Scheduler] = "idle"
    /\ closer.pc = "idle"
    /\ IF app = "None" /\ app_name = "None"
       THEN \* create_app issues the call
            /\ pc' = [pc EXCEPT ![Scheduler] = "app_call"]
            /\ cloudApp' = [cloudApp EXCEPT !.creates = @ + 1]
            /\ UNCHANGED cloudInst
       ELSE \* create_app is skipped or returns at once; cluster.wait_for_app
            /\ UNCHANGED cloudApp
            /\ IF AppReady
               THEN EnterCreateVm(Scheduler, TRUE)
               ELSE /\ pc' = [pc EXCEPT ![Scheduler] = "wait_app"]
                    /\ UNCHANGED cloudInst
    /\ UNCHANGED <<clusterVars, machine, address, external_address, command,
                   err, polls, closer, callers, response, probe>>

\* A create_app that issues the call again when it failed
CreateAppReturnRetry ==
    /\ pc[Scheduler] = "app_call"
    /\ ~Blocked
    /\ \/ /\ app' = "app"
          /\ app_name' = "dask-app"
          /\ cloudApp' = [cloudApp EXCEPT !.exists = TRUE]
          /\ EnterCreateVm(Scheduler, TRUE)
          /\ UNCHANGED err
       \/ /\ app' = "failed"
          /\ IF cloudApp.creates < 2
             THEN /\ cloudApp' = [cloudApp EXCEPT !.creates = @ + 1]
                  /\ UNCHANGED <<pc, err>>
             ELSE /\ pc' = [pc EXCEPT ![Scheduler] = "failed"]
                  /\ err' = [err EXCEPT ![Scheduler] = "ProviderError"]
                  /\ UNCHANGED cloudApp
          /\ UNCHANGED <<app_name, cloudInst>>
    /\ UNCHANGED <<resources, provider, sched_addr, machine, address,
                   external_address,
                   command, polls, closer, callers, response, probe>>

\* The scheduler's create_app call answers
CreateAppReturn ==
    /\ pc[Scheduler] = "app_call"
    /\ ~Blocked
    /\ \/ /\ app' = "app"
          /\ app_name' = "dask-app"
          /\ cloudApp' = [cloudApp EXCEPT !.exists = TRUE]
          /\ EnterCreateVm(Scheduler, TRUE)
          /\ UNCHANGED err
       \/ /\ app' = "failed"
          /\ pc' = [pc EXCEPT ![Scheduler] = "failed"]
          /\ err' = [err EXCEPT ![Scheduler] = "ProviderError"]
          /\ UNCHANGED <<app_name, cloudApp, cloudInst>>
    /\ UNCHANGED <<resources, provider, sched_addr, machine, address,
                   external_address,
                   command, polls, closer, callers, response, probe>>

\* asyncio.sleep(1) of a wait_for_app loop returns: the condition is read again
WaitAppWake(i) ==
    /\ pc[i] \in {"wait_app", "vm_wait_app"}
    /\ ~Blocked
    /\ IF AppReady
       THEN /\ EnterCreateVm(i, TRUE)
            /\ polls' = [polls EXCEPT ![i] = NoPolls]
       ELSE /\ polls' = [polls EXCEPT ![i] = Bump(@, "none")]
            /\ UNCHANGED <<pc, cloudInst>>
    /\ UNCHANGED <<clusterVars, machine, address, external_address, command,
                   err, cloudApp, closer, callers, response, probe>>

\* wait_for_scheduler: "while not asyncio.create_task(...)": the Task object is
\* truthy whatever the probe will answer, so the loop body never runs
FlyProbeLoopEntered == ~TRUE

\* A create_vm whose failure handler marks the cluster's app as failed, the way
\* create_app's handler does
CreateMachineReturnMarksApp(i) ==
    /\ provider = "fly"
    /\ pc[i] = "vm_call"
    /\ ~Blocked
    /\ \/ \E ip \in PrivateIPs :
            /\ cloudInst' = [cloudInst EXCEPT ![i].exists = TRUE]
            /\ machine' = [machine EXCEPT ![i] = TRUE]
            /\ address' = [address EXCEPT ![i] = FlyAddress(ip)]
            /\ pc' = [pc EXCEPT ![i] = "done"]
            /\ sched_addr' = IF i = Scheduler THEN FlyAddress(ip) ELSE sched_addr
            /\ probe' = IF i = Scheduler THEN "pending" ELSE probe
            /\ UNCHANGED <<err, app>>
       \/ /\ pc' = [pc EXCEPT ![i] = "failed"]
          /\ err' = [err EXCEPT ![i] = "ProviderError"]
          /\ app' = "failed"
          /\ UNCHANGED <<cloudInst, machine, address, sched_addr, probe>>
    /\ UNCHANGED <<resources, provider, app_name, external_address, command,
                   polls,
                   cloudApp, closer, callers, response>>

\* The create_machine call of instance i answers; the rest of create_vm and of
\* the start coroutine runs without suspending
CreateMachineReturn(i) ==
    /\ provider = "fly"
    /\ pc[i] = "vm_call"
    /\ ~Blocked
    /\ \/ \E ip \in PrivateIPs :
            /\ cloudInst' = [cloudInst EXCEPT ![i].exists = TRUE]
            /\ machine' = [machine EXCEPT ![i] = TRUE]
            /\ address' = [address EXCEPT ![i] = FlyAddress(ip)]
            /\ IF i = Scheduler /\ FlyProbeLoopEntered
               THEN /\ pc' = [pc EXCEPT ![i] = "probe"]
                    /\ UNCHANGED sched_addr
               ELSE /\ pc' = [pc EXCEPT ![i] = "done"]
                    /\ sched_addr' = IF i = Scheduler THEN FlyAddress(ip)
                                     ELSE sched_addr
            \* the scheduler's wait_for_scheduler has created the probe task;
            \* nothing awaits it, so its result is never read
            /\ probe' = IF i = Scheduler THEN "pending" ELSE probe
            /\ UNCHANGED err
       \/ /\ pc' = [pc EXCEPT ![i] = "failed"]
          /\ err' = [err EXCEPT ![i] = "ProviderError"]
          /\ UNCHANGED <<cloudInst, machine, address, sched_addr, probe>>
    /\ UNCHANGED <<resources, provider, app, app_name, external_address,
                   command, polls,
                   cloudApp, closer, callers, response>>

\* add_worker on Fly: FlyMachineWorker(scheduler, cluster) is constructed and
\* its start runs up to the first suspension
AddWorkerFly(w) ==
    /\ provider = "fly"
    /\ pc[w] = "new"
    /\ \A v \in Workers : v < w => pc[v] /= "new"
    /\ closer.pc = "idle"
    /\ IF WorkerInitError(SchedulerArg) /= "none"
       THEN /\ pc' = [pc EXCEPT ![w] = "failed"]
            /\ err' = [err EXCEPT ![w] = WorkerInitError(SchedulerArg)]
            /\ UNCHANGED <<command, cloudInst>>
       ELSE /\ command' = [command EXCEPT ![w] = WorkerCommand(SchedulerArg)]
            /\ EnterCreateVm(w, AppReady)
            /\ UNCHANGED err
    /\ UNCHANGED <<clusterVars, machine, address, external_address, polls,
                   cloudApp, closer, callers, response, probe>>

\* ------------------------------------------------------------ ibm: create
\* IBMCodeEngineScheduler.start: create_vm with a string command issues the
\* (synchronous) create_app call for the scheduler and enters the status loop
StartSchedulerIBM ==
    /\ provider = "ibm"
    /\ pc[Scheduler] = "idle"
    /\ closer.pc = "idle"
    /\ \/ /\ pc' = [pc EXCEPT ![Scheduler] = "polling"]
          /\ cloudInst' = [cloudInst EXCEPT ![Scheduler].creates = @ + 1,
                                            ![Scheduler].exists = TRUE]
          /\ UNCHANGED err
       \/ /\ pc' = [pc EXCEPT ![Scheduler] = "failed"]
          /\ cloudInst' = [cloudInst EXCEPT ![Scheduler].creates = @ + 1]
          /\ err' = [err EXCEPT ![Scheduler] = "ProviderError"]
    /\ UNCHANGED <<clusterVars, machine, address, external_address, command,
                   polls, cloudApp, closer, callers, response, probe>>

\* One turn of "while True: get_app ... time.sleep(1)"
PollStatus ==
    /\ provider = "ibm"
    /\ pc[Scheduler] = "polling"
    /\ \/ \E host \in InternalHosts :
            \* status ready: the addresses are read from this response
            /\ address' = [address EXCEPT
                               ![Scheduler] = SplitSlashesSecond(EndpointInternal(host))]
            /\ external_address' = [external_address EXCEPT
                               ![Scheduler] = SplitSlashesSecond(EndpointPublic)]
            /\ response' = [polls |-> polls[Scheduler].n,
                            endpoint_internal |-> EndpointInternal(host)]
            /\ pc' = [pc EXCEPT ![Scheduler] = "probe"]
            /\ polls' = [polls EXCEPT ![Scheduler] = NoPolls]
            /\ UNCHANGED err
       \/ \E st \in PendingStatuses :
            \* any other status: sleep and ask again
            /\ polls' = [polls EXCEPT ![Scheduler] = Bump(@, st)]
            /\ UNCHANGED <<pc, address, external_address, err, response>>
       \/ \* get_app raises
          /\ pc' = [pc EXCEPT ![Scheduler] = "failed"]
          /\ err' = [err EXCEPT ![Scheduler] = "ProviderError"]
          /\ UNCHANGED <<address, external_address, polls, response>>
    /\ UNCHANGED <<clusterVars, machine, command, cloudApp, cloudInst, closer,
                   callers, probe>>

\* start_scheduler after create_vm: wait_for_scheduler probes the scheduler's
\* port until it opens, then the addresses are recorded on the cluster
ProbeScheduler ==
    /\ pc[Scheduler] = "probe"
    /\ ~Blocked
    /\ \/ /\ sched_addr' = address[Scheduler]
          /\ pc' = [pc EXCEPT ![Scheduler] = "done"]
          /\ polls' = [polls EXCEPT ![Scheduler] = NoPolls]
          /\ probe' = "open"
       \/ /\ polls' = [polls EXCEPT ![Scheduler] = Bump(@, "closed")]
          /\ probe' = "closed"
          /\ UNCHANGED <<pc, sched_addr>>
    /\ UNCHANGED <<resources, provider, app, app_name, machine, address,
                   external_address,
                   command, err, cloudApp, cloudInst, closer, callers, response>>

\* add_worker on IBM: IBMCodeEngineWorker is constructed and started;
\* create_vm with a list command creates the config map and the job run and
\* returns (None, None), all without suspending
AddWorkerIBM(w) ==
    /\ provider = "ibm"
    /\ pc[w] = "new"
    /\ \A v \in Workers : v < w => pc[v] /= "new"
    /\ closer.pc = "idle"
    /\ ~Blocked
    /\ IF WorkerInitError(SchedulerArg) /= "none"
       THEN /\ pc' = [pc EXCEPT ![w] = "failed"]
            /\ err' = [err EXCEPT ![w] = WorkerInitError(SchedulerArg)]
            /\ UNCHANGED <<command, cloudInst>>
       ELSE /\ command' = [command EXCEPT ![w] = WorkerCommand(SchedulerArg)]
            /\ \/ \* both calls succeed
                  /\ cloudInst' = [cloudInst EXCEPT
                         ![w] = [@ EXCEPT !.aux = @ + 1, !.cfg = TRUE,
                                          !.creates = @ + 1, !.exists = TRUE]]
                  /\ pc' = [pc EXCEPT ![w] = "done"]
                  /\ UNCHANGED err
               \/ \* create_config_map raises
                  /\ cloudInst' = [cloudInst EXCEPT ![w].aux = @ + 1]
                  /\ pc' = [pc EXCEPT ![w] = "failed"]
                  /\ err' = [err EXCEPT ![w] = "ProviderError"]
               \/ \* create_job_run raises
                  /\ cloudInst' = [cloudInst EXCEPT
                         ![w] = [@ EXCEPT !.aux = @ + 1, !.cfg = TRUE,
                                          !.creates = @ + 1]]
                  /\ pc' = [pc EXCEPT ![w] = "failed"]
                  /\ err' = [err EXCEPT ![w] = "ProviderError"]
    /\ UNCHANGED <<clusterVars, machine, address, external_address, polls,
                   cloudApp, closer, callers, response, probe>>

\* ------------------------------------------------------------ cancellation
\* The caller cancels the start of instance i while it is suspended in an
\* await: CancelledError is raised there and nothing after the await runs.
\* A call that was in flight may or may not have taken effect on the provider.
Cancel(i) ==
    /\ pc[i] \in AwaitPcs
    /\ ~Blocked
    /\ pc' = [pc EXCEPT ![i] = "cancelled"]
    /\ err' = [err EXCEPT ![i] = "CancelledError"]
    /\ \E created \in BOOLEAN :
         /\ cloudApp' = IF pc[i] = "app_call" /\ created
                        THEN [cloudApp EXCEPT !.exists = TRUE] ELSE cloudApp
         /\ cloudInst' = IF pc[i] = "vm_call" /\ created
                         THEN [cloudInst EXCEPT ![i].exists = TRUE] ELSE cloudInst
         /\ created => pc[i] \in {"app_call", "vm_call"}
    /\ UNCHANGED <<clusterVars, machine, address, external_address, command,
                   polls, closer, callers, response, probe>>

\* ------------------------------------------------------------------ close
\* The worker objects that exist: constructed without an exception
Constructed(w) == pc[w] /= "new" /\ err[w] \notin InitErrors

\* close() starts: workers first, then the scheduler, then the application.
\* A close() that has returned may be called a second time.
CloseBegin ==
    /\ \/ closer.pc = "idle"
       \/ closer.pc = "closed" /\ ~closer.again
    /\ ~Blocked
    /\ closer' = [pc |-> "instances",
                  todo |-> {w \in Workers : Constructed(w)},
                  visited |-> {}, awaiting |-> {},
                  raised |-> {}, appRaised |-> FALSE,
                  again |-> closer.pc = "closed"]
    /\ UNCHANGED <<clusterVars, instVars, cloudApp, cloudInst, callers>>

\* The instances close() may destroy next: any worker left, else the scheduler
NextToDestroy ==
    IF closer.todo \ closer.visited /= {} THEN closer.todo \ closer.visited
    ELSE {Scheduler} \ closer.visited

\* close() is done with instance i
Visit(c, i) ==
    [c EXCEPT !.visited = @ \cup {i}, !.awaiting = {},
              !.pc = IF i = Scheduler THEN "app" ELSE @]

\* A close() that gives up at the first delete that raises
CatchAborts(c, i) == [c EXCEPT !.pc = "closed", !.awaiting = {}, !.raised = @ \cup {i}]

\* destroy_vm of instance i raised into close(): the failure is logged, not
\* raised, and close() goes on with the next teardown step
Catch(c, i) == [Visit(c, i) EXCEPT !.raised = @ \cup {i}]

\* FlyMachine.destroy_vm up to its suspension
FlyDestroyVm(i) ==
    IF ~machine[i]
    THEN \* "Not Terminating Machine: Machine does not exist"
         /\ closer' = Visit(closer, i)
         /\ UNCHANGED cloudInst
    ELSE \* delete_machine(force=True) is issued
         /\ closer' = [closer EXCEPT !.awaiting = {i}]
         /\ cloudInst' = [cloudInst EXCEPT ![i].deletes = @ + 1]

\* IBMCodeEngine.destroy_vm: delete_job_run for a worker, delete_app for the
\* scheduler, by name; the call is synchronous
IBMDestroyVm(i) ==
    \/ \* the resource exists and is deleted
       /\ cloudInst[i].exists
       /\ cloudInst' = [cloudInst EXCEPT ![i].deletes = @ + 1, ![i].exists = FALSE]
       /\ closer' = Visit(closer, i)
    \/ \* the call raises (not found when the resource is absent); nothing
       \* in destroy_vm catches it
       /\ cloudInst' = [cloudInst EXCEPT ![i].deletes = @ + 1]
       /\ closer' = Catch(closer, i)

\* close() destroys one instance
CloseDestroy(i) ==
    /\ closer.pc = "instances"
    /\ closer.awaiting = {}
    /\ ~Blocked
    /\ i \in NextToDestroy
    /\ IF provider = "fly" THEN FlyDestroyVm(i) ELSE IBMDestroyVm(i)
    /\ UNCHANGED <<clusterVars, instVars, cloudApp, callers>>

\* The delete_machine call for instance i answers: the machine is deleted, or
\* the call raises (not found when the machine is absent) and nothing in
\* destroy_vm catches it
CloseDeleteReturn(i) ==
    /\ closer.awaiting = {i}
    /\ ~Blocked
    /\ \/ /\ cloudInst[i].exists
          /\ cloudInst' = [cloudInst EXCEPT ![i].exists = FALSE]
          /\ closer' = Visit(closer, i)
       \/ /\ closer' = Catch(closer, i)
          /\ UNCHANGED cloudInst
    /\ UNCHANGED <<clusterVars, instVars, cloudApp, callers>>

\* FlyMachineCluster.delete_app up to its suspension; the IBM cluster has no
\* application of its own to delete
CloseApp ==
    /\ closer.pc = "app"
    /\ ~Blocked
    /\ IF provider = "fly" /\ app_name /= "None"
       THEN /\ closer' = [closer EXCEPT !.pc = "app_call"]
            /\ cloudApp' = [cloudApp EXCEPT !.deletes = @ + 1]
       ELSE \* "Not deleting app as it does not exist"
            /\ closer' = [closer EXCEPT !.pc = "closed"]
            /\ UNCHANGED cloudApp
    /\ UNCHANGED <<clusterVars, instVars, cloudInst, callers>>

\* The delete_app call answers: the app is deleted, or the call raises (not
\* found when the app is absent); close() logs the failure and returns
CloseAppReturn ==
    /\ closer.pc = "app_call"
    /\ ~Blocked
    /\ \/ /\ cloudApp.exists
          /\ cloudApp' = [cloudApp EXCEPT !.exists = FALSE]
          /\ closer' = [closer EXCEPT !.pc = "closed"]
       \/ /\ closer' = [closer EXCEPT !.pc = "closed", !.appRaised = TRUE]
          /\ UNCHANGED cloudApp
    /\ UNCHANGED <<clusterVars, instVars, cloudInst, callers>>

\* ---------------------------------------------- concurrent create_app callers
\* A caller runs "if self.cluster.app is None: await self.cluster.create_app()"
\* up to the suspension in create_app
EnsureEnter(c) ==
    /\ callers[c] = "idle"
    /\ IF app = "None" /\ app_name = "None"
       THEN /\ callers' = [callers EXCEPT ![c] = "app_call"]
            /\ cloudApp' = [cloudApp EXCEPT !.creates = @ + 1]
       ELSE /\ callers' = [callers EXCEPT ![c] = "done"]
            /\ UNCHANGED cloudApp
    /\ UNCHANGED <<clusterVars, instVars, cloudInst, closer>>

\* The caller's create_app call answers
EnsureReturn(c) ==
    /\ callers[c] = "app_call"
    /\ \/ /\ app' = "app"
          /\ app_name' = "dask-app"
          /\ cloudApp' = [cloudApp EXCEPT !.exists = TRUE]
          /\ callers' = [callers EXCEPT ![c] = "done"]
       \/ /\ app' = "failed"
          /\ callers' = [callers EXCEPT ![c] = "failed"]
          /\ UNCHANGED <<app_name, cloudApp>>
    /\ UNCHANGED <<resources, provider, sched_addr, instVars, cloudInst,
                   closer>>

\* ----------------------------------------------------------- specifications
Next ==
    \/ StartSchedulerFly
    \/ CreateAppReturn
    \/ \E i \in Insts : WaitAppWake(i)
    \/ \E i \in Insts : CreateMachineReturn(i)
    \/ \E w \in Workers : AddWorkerFly(w)
    \/ StartSchedulerIBM
    \/ PollStatus
    \/ ProbeScheduler
    \/ \E w \in Workers : AddWorkerIBM(w)
    \/ \E i \in Insts : Cancel(i)
    \/ CloseBegin
    \/ \E i \in Insts : CloseDestroy(i)
    \/ \E i \in Insts : CloseDeleteReturn(i)
    \/ CloseApp
    \/ CloseAppReturn

Spec == Init /\ [][Next]_vars

\* N concurrent callers of create_app on a Fly cluster whose app is absent
InitEnsure == Init /\ provider = "fly" /\ app_name = "None"

NextEnsure == \E c \in Callers : EnsureEnter(c) \/ EnsureReturn(c)

SpecEnsure == InitEnsure /\ [][NextEnsure]_vars

\* The same program on a cluster constructed with any of the resource settings
InitResources == InitCluster /\ resources \in ResourceConfigs

SpecResources == InitResources /\ [][Next]_vars

\* The event loop runs every coroutine that can take a step, and a blocking
\* status loop keeps turning; what the caller does (start, add_worker, cancel,
\* close) is not forced
CoroutineStep ==
    \/ CreateAppReturn
    \/ ProbeScheduler
    \/ \E i \in Insts : WaitAppWake(i)
    \/ \E i \in Insts : CreateMachineReturn(i)
    \/ \E i \in Insts : CloseDestroy(i)
    \/ \E i \in Insts : CloseDeleteReturn(i)
    \/ CloseApp
    \/ CloseAppReturn

FairSpec == Spec /\ WF_vars(PollStatus) /\ WF_vars(CoroutineStep)

\* ------------------------------------------------------------------ claims
\* Provider calls issued on behalf of instance i
Calls(i) == cloudInst[i].creates + cloudInst[i].aux + cloudInst[i].deletes

\* close() finishes with instance i in this step
Visiting(i) == i \in closer'.visited /\ i \notin closer.visited

\* C1: no worker instance creation call (create_machine; create_config_map or
\* create_job_run) has been issued while the scheduler start has not yet
\* recorded the scheduler's internal address on the cluster.
C1_NoWorkerCreateBeforeSchedulerAddress ==
    \A w \in Workers :
        cloudInst[w].creates + cloudInst[w].aux > 0 => sched_addr /= None

\* A worker's create call is in flight or has answered
C1_Witness ==
    \E w \in Workers : cloudInst[w].creates > 0 /\ sched_addr /= None

\* C2: however many callers enter create_app concurrently while the app is
\* absent, at most one create-app call is issued, and exactly one once every
\* caller has returned.
C2_ExactlyOneCreateApp ==
    /\ cloudApp.creates <= 1
    /\ (\A c \in Callers : callers[c] \in {"done", "failed"}) => cloudApp.creates = 1

\* C3: when close() destroys an instance whose create call was issued (and not
\* rejected), it issues a delete for it, also when the create call has not
\* answered yet or the start never completed.
C3_CloseDeletesEveryRequestedInstance ==
    [][\A i \in Insts :
          (Visiting(i) /\ cloudInst[i].creates > 0 /\ pc[i] /= "failed")
              => cloudInst'[i].deletes > 0]_vars

\* C4: close() issues the application delete for an application this cluster
\* created on the provider, and issues it only once a delete has been issued
\* for every instance whose create call was issued (and not rejected).
C4_TeardownOrder ==
    [][/\ (cloudApp'.deletes > cloudApp.deletes) =>
             \A i \in Insts : (cloudInst[i].creates > 0 /\ pc[i] /= "failed")
                                  => cloudInst[i].deletes > 0
       /\ (closer'.pc = "closed" /\ closer.pc /= "closed"
              /\ cloudApp.creates > 0 /\ cloudApp.exists)
             => cloudApp'.deletes > 0]_vars

\* C5: the wait for a ready instance always ends: a scheduler start that is
\* polling the provider eventually leaves the polling loop.
C5_ResolveAddressTerminates ==
    (pc[Scheduler] = "polling") ~> (pc[Scheduler] /= "polling")

\* C6: an instance whose create/resolve sequence returned successfully has both
\* its internal and its external address set.
C6_NoPartialAddressPair ==
    \A i \in Insts :
        pc[i] = "done" => (address[i] /= None /\ external_address[i] /= None)

\* C7: a worker added while the scheduler start has not succeeded fails with
\* PreconditionError and no provider call is issued for it.
C7_EarlyAddWorkerRejected ==
    \A w \in Workers :
        (pc[w] /= "new" /\ pc[Scheduler] /= "done")
            => (pc[w] = "failed" /\ err[w] = "PreconditionError" /\ Calls(w) = 0)

\* C8: once the scheduler start has succeeded, the command of every worker that
\* was constructed contains, verbatim, the internal address the scheduler start
\* recorded on the cluster.
C8_WorkerCommandHoldsSchedulerAddress ==
    \A w \in Workers :
        (pc[Scheduler] = "done" /\ Constructed(w))
            => Contains(command[w], sched_addr)

\* Two workers were added after the scheduler start succeeded
C8_Witness ==
    /\ pc[Scheduler] = "done"
    /\ \E w1, w2 \in Workers :
         /\ w1 /= w2
         /\ Constructed(w1) /\ Constructed(w2)
         /\ Contains(command[w1], sched_addr)

\* C9: when the scheduler start has failed, a delete has been issued for every
\* provider resource the start created (the application, the scheduler
\* instance).
C9_FailedStartCleansUp ==
    pc[Scheduler] = "failed" =>
        /\ (cloudApp.creates > 0 /\ cloudApp.exists) => cloudApp.deletes > 0
        /\ cloudInst[Scheduler].exists => cloudInst[Scheduler].deletes > 0

\* C10: when close() destroys an instance whose start was cancelled while its
\* create call was in flight and which the provider did create, it issues a
\* delete for it.
C10_CancelledCreateIsCleanedUp ==
    [][\A i \in Insts :
          (Visiting(i) /\ pc[i] = "cancelled" /\ cloudInst[i].exists)
              => cloudInst'[i].deletes > 0]_vars

\* A delete call for instance i was issued and has answered in this step
DeleteAnswered(i) ==
    /\ Visiting(i)
    /\ \/ closer.awaiting = {i}
       \/ cloudInst'[i].deletes > cloudInst[i].deletes

\* The create call of worker w is rejected by the provider in this step
CreateFailed(w) ==
    /\ pc'[w] = "failed"
    /\ \/ pc[w] = "vm_call"
       \/ pc[w] = "new" /\ cloudInst'[w].aux > cloudInst[w].aux

\* C11: once close() has destroyed an instance that had started (or the
\* application), a second close() issues no further delete call for it.
C11_SecondCloseIssuesNoCalls ==
    [][/\ \A i \in Insts :
             (/\ closer.again
              /\ pc[i] = "done" /\ cloudInst[i].deletes > 0
              /\ ~cloudInst[i].exists)
                 => cloudInst'[i].deletes = cloudInst[i].deletes
       /\ (closer.again /\ cloudApp.deletes > 0 /\ ~cloudApp.exists)
             => cloudApp'.deletes = cloudApp.deletes]_vars

\* C12: when the delete call for an instance the provider reports as absent
\* answers (not found), destroy_vm returns without raising.
C12_NotFoundDeleteDoesNotRaise ==
    [][\A i \in Insts :
          (DeleteAnswered(i) /\ ~cloudInst[i].exists) => i \notin closer'.raised]_vars

C14_FailedAddWorkerTouchesNothingElse ==
    [][\A w \in Workers :
          CreateFailed(w) =>
              /\ err'[w] = "ProviderError"
              /\ <<app, app_name, sched_addr>>' = <<app, app_name, sched_addr>>
              /\ \A i \in Insts \ {w} :
                    /\ <<pc[i], machine[i], address[i], external_address[i],
                         command[i], err[i]>>'
                          = <<pc[i], machine[i], address[i], external_address[i],
                              command[i], err[i]>>
                    /\ cloudInst'[i] = cloudInst[i]]_vars

\* A worker's create call failed while the scheduler and another worker run
C14_Witness ==
    /\ pc[Scheduler] = "done"
    /\ \E w, v \in Workers :
         /\ pc[w] = "failed" /\ err[w] = "ProviderError" /\ cloudInst[w].creates > 0
         /\ pc[v] = "done"

\* C15: once the IBM scheduler start has returned, the internal address it
\* recorded on the cluster (and on the scheduler) is the host of the
\* endpoint_internal carried by the get_app response that reported ready.
C15_AddressFromReadyResponse ==
    (provider = "ibm" /\ pc[Scheduler] = "done") =>
        \E h \in InternalHosts :
            /\ response.endpoint_internal = EndpointInternal(h)
            /\ address[Scheduler] = <<h>>
            /\ sched_addr = <<h>>

\* The provider reported ready after 2 polls and the start has returned
C15_Witness ==
    /\ provider = "ibm"
    /\ pc[Scheduler] = "done"
    /\ response.polls = 2
    /\ sched_addr = <<"sched.internal-a">>

\* C16: a create_machine call is issued only while the cluster's application
\* is ready: created (cluster.app is the app, its name is set) and present on
\* the provider.
C16_CreateOnlyWhenAppReady ==
    [][\A i \in Insts :
          (provider = "fly" /\ cloudInst'[i].creates > cloudInst[i].creates)
              => (app' = "app" /\ app_name' /= "None" /\ cloudApp'.exists)]_vars

\* Create calls were issued for the scheduler and for a worker
C16_Witness ==
    /\ provider = "fly"
    /\ app = "app"
    /\ cloudInst[Scheduler].creates > 0
    /\ \E w \in Workers : cloudInst[w].creates > 0

\* C17: when the create-app call fails, cluster.app is "failed", the scheduler
\* start has failed with the provider's error, and no further create-app call
\* is ever issued.
C17_FailedAppCreateIsNotRetried ==
    /\ [](app = "failed" =>
             /\ pc[Scheduler] = "failed"
             /\ err[Scheduler] = "ProviderError"
             /\ cloudApp.creates = 1)
    /\ [][app = "failed" => (app' = "failed" /\ cloudApp'.creates = cloudApp.creates)]_vars

\* The create-app call failed and the cluster was closed afterwards
C17_Witness ==
    /\ app = "failed"
    /\ pc[Scheduler] = "failed"
    /\ closer.pc = "closed"

\* C18: waiting for the application always ends: a start that is waiting in
\* wait_for_app eventually leaves the wait (ready, or a timeout error).
C18_WaitForAppTerminates ==
    (pc[Scheduler] \in {"wait_app", "vm_wait_app"})
        ~> (pc[Scheduler] \notin {"wait_app", "vm_wait_app"})

\* C19: the scheduler's address is recorded on the cluster only after a
\* connection probe to the scheduler has succeeded.
C19_ReadyOnlyAfterProbeSucceeded ==
    sched_addr /= None => probe = "open"

\* C20: while a start is waiting for readiness (status loop, wait_for_app,
\* probe loop), another task can take a step: a close() that is requested can
\* begin.
C20_WaitingDoesNotBlockOthers ==
    (/\ \E i \in Insts : pc[i] \in {"polling", "wait_app", "vm_wait_app", "probe"}
     /\ closer.pc = "idle")
        => ENABLED CloseBegin

\* C21: an instance's internal and external address are unset unless its start
\* has completed (status running or later): they are not populated while the
\* start is still waiting, or after it was abandoned before completing.
C21_AddressesUnsetUntilRunning ==
    \A i \in Insts :
        (address[i] /= None \/ external_address[i] /= None) => pc[i] = "done"

\* C22: when close() destroys an instance whose create call was never issued,
\* destroy issues no delete call and raises nothing.
C22_DestroyNeverCreatedIsNoOp ==
    [][\A i \in Insts :
          (Visiting(i) /\ cloudInst[i].creates = 0)
              => /\ cloudInst'[i].deletes = cloudInst[i].deletes
                 /\ i \notin closer'.raised]_vars

\* C24: on a cluster constructed with an application name, a scheduler start
\* that waits for the application eventually issues the scheduler's
\* create-instance call (unless its caller cancels it).
C24_PresetAppNameStartProceeds ==
    (provider = "fly" /\ app_name = "user-app" /\ pc[Scheduler] = "wait_app")
        ~> (cloudInst[Scheduler].creates > 0 \/ pc[Scheduler] = "cancelled")

\* C25: when the delete call destroy issued for an instance has succeeded,
\* nothing that was created for the instance remains on the provider: neither
\* the instance (app or job run) nor the config map created alongside a worker.
C25_DestroyReleasesWhatCreateAllocated ==
    [][\A i \in Insts :
          (DeleteAnswered(i) /\ i \notin closer'.raised)
              => (~cloudInst'[i].exists /\ ~cloudInst'[i].cfg)]_vars

\* C23: the cpu count and memory size in the payload of every create_machine
\* call that was issued equal the cpus and memory_mb the cluster was
\* constructed with.
C23_PayloadResourcesAsConfigured ==
    \A i \in Insts :
        (provider = "fly" /\ cloudInst[i].creates > 0)
            => cloudInst[i].guest = resources

=============================================================================
